---- MODULE Spec2Model ----
(***************************************************************************)
(* adncrab: a single-shot console RSS reader (src/src/main.rs).            *)
(*                                                                         *)
(* Two specifications are given:                                           *)
(*   Spec          the console session RssReader::run + main: print the    *)
(*                 menu, read one line, look the category up, fetch,       *)
(*                 parse, display, exit;                                   *)
(*   SpecSanitize  the pure function RssReader::remove_tags applied to     *)
(*                 bounded input strings, once and then to its own output. *)
(*                                                                         *)
(* Text is a sequence of one-character strings.                            *)
(***************************************************************************)
EXTENDS Integers, Sequences, FiniteSets, TLC

VARIABLES
    pc,             \* position of main/run: "menu", "await", "sending", "reading", "exited"
    category_urls,  \* RssReader.category_urls
    input,          \* what read_line delivered in get_category_input
    category,       \* the parsed selection (a u32), or NoCategory
    url,            \* the URL resolved in run, or ""
    response,       \* what the network delivered for the GET
    rss,            \* the parsed Rss, or NoRss
    gets,           \* number of HTTP GET requests sent
    body_read,      \* response.text() returned the body
    parse_tried,    \* serde_xml_rs::from_str was called
    stdout,         \* lines written to standard output
    stderr,         \* lines written to standard error
    exit_code,      \* process exit status, Running while the process lives
    san_pc,         \* SpecSanitize: "input", "once", "twice"
    san_text,       \* SpecSanitize: the argument of remove_tags
    san_out,        \* SpecSanitize: remove_tags(san_text)
    san_twice       \* SpecSanitize: remove_tags(san_out)

session_vars == <<pc, category_urls, input, category, url, response, rss, gets,
                  body_read, parse_tried, stdout, stderr, exit_code>>
san_vars == <<san_pc, san_text, san_out, san_twice>>
vars == <<session_vars, san_vars>>

(***************************************************************************)
(* Bounds of the model.                                                    *)
(***************************************************************************)
MaxPieces == 4      \* pieces concatenated into a sanitizer input
MaxInputLen == 2    \* characters of a generated console line
MaxItems == 2       \* <item> elements of a generated response body
MaxLookupId == 12   \* category ids looked up when the registry is examined

(***************************************************************************)
(* Text helpers.                                                           *)
(***************************************************************************)
RECURSIVE Concat(_)
Concat(ss) == IF ss = <<>> THEN <<>> ELSE Head(ss) \o Concat(Tail(ss))

SeqsUpTo(S, n) == UNION {[1..k -> S] : k \in 0..n}

\* s[i..] starts with pat
StartsWithAt(s, i, pat) ==
    /\ i + Len(pat) - 1 <= Len(s)
    /\ \A k \in 1..Len(pat) : s[i + k - 1] = pat[k]

(***************************************************************************)
(* RssReader::remove_tags, main.rs:75-81, with html_tag_regex = <[^>]*>    *)
(* (main.rs:61).                                                           *)
(***************************************************************************)
Nbsp == <<"&", "n", "b", "s", "p", ";">>

\* Index of the first ">" of s at or after i, 0 when there is none.
RECURSIVE FindGt(_, _)
FindGt(s, i) ==
    IF i > Len(s) THEN 0
    ELSE IF s[i] = ">" THEN i
    ELSE FindGt(s, i + 1)

\* Where a match of <[^>]*> that starts at i ends, 0 when none starts at i:
\* "<", then characters other than ">", then ">".
TagMatchEnd(s, i) ==
    IF s[i] = "<" THEN FindGt(s, i + 1) ELSE 0

\* Faulty variant: only the first match is replaced (Regex::replace for replace_all).
RECURSIVE replace_first_tag(_, _)
replace_first_tag(s, i) ==
    IF i > Len(s) THEN <<>>
    ELSE IF TagMatchEnd(s, i) # 0 THEN SubSeq(s, TagMatchEnd(s, i) + 1, Len(s))
    ELSE <<s[i]>> \o replace_first_tag(s, i + 1)

\* Faulty variant: the closing ">" is optional (<[^>]*>? for <[^>]*>), so an unmatched
\* "<" swallows the rest of the text.
RECURSIVE replace_all_open_tags(_, _)
replace_all_open_tags(s, i) ==
    IF i > Len(s) THEN <<>>
    ELSE IF s[i] = "<"
         THEN IF FindGt(s, i + 1) # 0
              THEN replace_all_open_tags(s, FindGt(s, i + 1) + 1)
              ELSE <<>>
    ELSE <<s[i]>> \o replace_all_open_tags(s, i + 1)

\* html_tag_regex.replace_all(text, "") from position i on: the leftmost
\* match is deleted and the scan resumes behind it.
RECURSIVE replace_all_tags(_, _)
replace_all_tags(s, i) ==
    IF i > Len(s) THEN <<>>
    ELSE IF TagMatchEnd(s, i) # 0 THEN replace_all_tags(s, TagMatchEnd(s, i) + 1)
    ELSE <<s[i]>> \o replace_all_tags(s, i + 1)

\* Faulty variant: the entity is deleted instead of replaced by a space.
RECURSIVE replace_nbsp_by_nothing(_, _)
replace_nbsp_by_nothing(s, i) ==
    IF i > Len(s) THEN <<>>
    ELSE IF StartsWithAt(s, i, Nbsp) THEN replace_nbsp_by_nothing(s, i + Len(Nbsp))
    ELSE <<s[i]>> \o replace_nbsp_by_nothing(s, i + 1)

\* str::replace("&nbsp;", " ") from position i on.
RECURSIVE replace_nbsp(_, _)
replace_nbsp(s, i) ==
    IF i > Len(s) THEN <<>>
    ELSE IF StartsWithAt(s, i, Nbsp) THEN <<" ">> \o replace_nbsp(s, i + Len(Nbsp))
    ELSE <<s[i]>> \o replace_nbsp(s, i + 1)

\* Faulty variant: the entity is replaced before the tags are removed.
remove_tags_entity_first(text) ==
    replace_all_tags(replace_nbsp(text, 1), 1)

remove_tags(text) ==
    LET clean_text == replace_all_tags(text, 1)
    IN  replace_nbsp(clean_text, 1)

(***************************************************************************)
(* The category registry built in RssReader::new, main.rs:51-59.           *)
(***************************************************************************)
\* Faulty variant: the last insert reuses key 7, so key 8 is never inserted.
new_category_urls_key_reused ==
    (1 :> "https://www.adnkronos.com/RSS_PrimaPagina.xml") @@
    (2 :> "https://www.adnkronos.com/RSS_Ultimora.xml") @@
    (3 :> "https://www.adnkronos.com/RSS_Politica.xml") @@
    (4 :> "https://www.adnkronos.com/RSS_Esteri.xml") @@
    (5 :> "https://www.adnkronos.com/RSS_Cronaca.xml") @@
    (6 :> "https://www.adnkronos.com/RSS_Economia.xml") @@
    (7 :> "https://www.adnkronos.com/RSS_Sport.xml")

new_category_urls ==
    (1 :> "https://www.adnkronos.com/RSS_PrimaPagina.xml") @@
    (2 :> "https://www.adnkronos.com/RSS_Ultimora.xml") @@
    (3 :> "https://www.adnkronos.com/RSS_Politica.xml") @@
    (4 :> "https://www.adnkronos.com/RSS_Esteri.xml") @@
    (5 :> "https://www.adnkronos.com/RSS_Cronaca.xml") @@
    (6 :> "https://www.adnkronos.com/RSS_Economia.xml") @@
    (7 :> "https://www.adnkronos.com/RSS_Finanza.xml") @@
    (8 :> "https://www.adnkronos.com/RSS_Sport.xml")

(***************************************************************************)
(* u32 values.  A u32 is kept as its two 16-bit halves, so that the whole  *)
(* range 0 .. 2^32 - 1 and the overflow beyond it are represented.         *)
(***************************************************************************)
Half == 65536

U32(n) == [hi |-> n \div Half, lo |-> n % Half]

\* checked_mul(10) followed by checked_add(d): the new value, or Overflow.
U32MulAdd(v, d) ==
    LET lo == v.lo * 10 + d
        hi == v.hi * 10 + (lo \div Half)
    IN  [overflow |-> hi >= Half, val |-> [hi |-> hi % Half, lo |-> lo % Half]]

(***************************************************************************)
(* get_category_input, main.rs:119-124: input.trim().parse::<u32>().       *)
(***************************************************************************)
Whitespace == {" ", "\n", "\t", "\r"}
Digits == <<"0", "1", "2", "3", "4", "5", "6", "7", "8", "9">>

IsDigit(c) == \E d \in 1..10 : Digits[d] = c
DigitValue(c) == (CHOOSE d \in 1..10 : Digits[d] = c) - 1

RECURSIVE TrimStart(_)
TrimStart(s) ==
    IF s # <<>> /\ Head(s) \in Whitespace THEN TrimStart(Tail(s)) ELSE s

RECURSIVE TrimEnd(_)
TrimEnd(s) ==
    IF s # <<>> /\ s[Len(s)] \in Whitespace
    THEN TrimEnd(SubSeq(s, 1, Len(s) - 1)) ELSE s

Trim(s) == TrimEnd(TrimStart(s))

ParseOk(v) == [ok |-> TRUE, val |-> v, err |-> ""]
ParseErr(e) == [ok |-> FALSE, val |-> U32(0), err |-> e]

\* The digit loop of u32::from_str over s[i..], acc the value so far.
RECURSIVE ParseDigits(_, _, _)
ParseDigits(s, i, acc) ==
    IF i > Len(s) THEN ParseOk(acc)
    ELSE IF ~IsDigit(s[i]) THEN ParseErr("invalid digit found in string")
    ELSE IF U32MulAdd(acc, DigitValue(s[i])).overflow
         THEN ParseErr("number too large to fit in target type")
    ELSE ParseDigits(s, i + 1, U32MulAdd(acc, DigitValue(s[i])).val)

\* str::parse::<u32>: an empty string and a lone sign are errors, one leading
\* "+" is accepted, "-" is not a digit of an unsigned type.
ParseU32(s) ==
    IF s = <<>> THEN ParseErr("cannot parse integer from empty string")
    ELSE IF s = <<"+">> \/ s = <<"-">> THEN ParseErr("invalid digit found in string")
    ELSE IF Head(s) = "+" THEN ParseDigits(s, 2, U32(0))
    ELSE ParseDigits(s, 1, U32(0))

\* read is what io::stdin().read_line returned: the line, or an I/O error.
get_category_input(read) ==
    IF ~read.ok THEN ParseErr("stream did not contain valid UTF-8")
    ELSE ParseU32(Trim(read.line))

(***************************************************************************)
(* The feed model, main.rs:9-39, and serde_xml_rs::from_str, main.rs:97.   *)
(*                                                                         *)
(* A response body is a document: whether it is well-formed XML, the text  *)
(* children present under <channel>, and the <item> elements in document   *)
(* order, each with the text children it has.  An element is a function    *)
(* from the names of its children to their text.                           *)
(***************************************************************************)
ChannelFields == {"title", "description", "link"}
ItemFields == {"title", "link", "description", "pubDate"}

ItemComplete(e) == ItemFields \subseteq DOMAIN e

\* struct Item, main.rs:30-39.
ItemOf(e) ==
    [title |-> e["title"], link |-> e["link"],
     description |-> e["description"], pub_date |-> e["pubDate"]]

\* struct Rss / struct Channel, main.rs:10-26.
RssOf(content, elems) ==
    [channel |-> [title |-> content.channel["title"],
                  description |-> content.channel["description"],
                  link |-> content.channel["link"],
                  items |-> [i \in 1..Len(elems) |-> ItemOf(elems[i])]]]

NoRssValue == RssOf([channel |-> [title |-> <<>>, description |-> <<>>, link |-> <<>>]], <<>>)
FromStrOk(r) == [ok |-> TRUE, rss |-> r, err |-> ""]
FromStrErr(e) == [ok |-> FALSE, rss |-> NoRssValue, err |-> e]

\* Faulty variant: a lenient parser that skips the items it cannot deserialize.
from_str_lenient(content) ==
    IF ~content.wellformed THEN {FromStrErr("malformed XML")}
    ELSE IF ~(ChannelFields \subseteq DOMAIN content.channel)
         THEN {FromStrErr("missing field")}
    ELSE {FromStrOk(RssOf(content, SelectSeq(content.items, ItemComplete)))}

\* The set of results from_str can give for a body.  Every field of Channel
\* and Item is a plain String, so a missing child is an error.  Whether a
\* channel without any <item> deserializes into an empty Vec or fails with a
\* missing field depends on the serde_xml_rs release: both are results.
from_str(content) ==
    IF ~content.wellformed THEN {FromStrErr("malformed XML")}
    ELSE IF ~(ChannelFields \subseteq DOMAIN content.channel)
         THEN {FromStrErr("missing field")}
    ELSE IF \E i \in 1..Len(content.items) : ~ItemComplete(content.items[i])
         THEN {FromStrErr("missing field")}
    ELSE IF content.items = <<>>
         THEN {FromStrErr("missing field"), FromStrOk(RssOf(content, <<>>))}
    ELSE {FromStrOk(RssOf(content, content.items))}

(***************************************************************************)
(* Output.  A line is the literal text of the format string and the text   *)
(* of its argument.                                                        *)
(***************************************************************************)
Line(label, text) == [label |-> label, text |-> text]
BlankLine == Line("", <<>>)
Separator ==
    Line("--------------------------------------------------------------------------------", <<>>)

\* print_menu, main.rs:103-116.
print_menu ==
    << Line("Adnkronos RSS Reader", <<>>),
       Line("0: Exit", <<>>),
       Line("1: Prima Pagina", <<>>),
       Line("2: Ultim'ora", <<>>),
       Line("3: Politica", <<>>),
       Line("4: Esteri", <<>>),
       Line("5: Cronaca", <<>>),
       Line("6: Economia", <<>>),
       Line("7: Finanza", <<>>),
       Line("8: Sport", <<>>),
       BlankLine,
       Line("Select category number: ", <<>>) >>

\* Faulty variant: the description is printed as it came, without remove_tags.
display_item_raw(item) ==
    << Line("Title: ", item.title),
       Line("Link: ", item.link),
       Line("Description: ", item.description),
       Line("Published: ", item.pub_date),
       BlankLine,
       Separator >>

\* The body of the loop of display_feed, main.rs:133-139.
display_item(item) ==
    << Line("Title: ", item.title),
       Line("Link: ", item.link),
       Line("Description: ", remove_tags(item.description)),
       Line("Published: ", item.pub_date),
       BlankLine,
       Separator >>

RECURSIVE display_items(_)
display_items(items) ==
    IF items = <<>> THEN <<>>
    ELSE display_item(Head(items)) \o display_items(Tail(items))

\* display_feed, main.rs:127-141.
display_feed(r) ==
    << BlankLine,
       Line("Title: ", r.channel.title),
       Line("Link: ", r.channel.link),
       Line("Description: ", r.channel.description),
       BlankLine >> \o display_items(r.channel.items)

(***************************************************************************)
(* What the environment can deliver: console lines, HTTP outcomes, bodies. *)
(***************************************************************************)
InputChars == {"0", "1", "9", "+", "-", " ", "\n", "x"}

ExtraLines ==
    { <<"2", "\n">>, <<"3", "\n">>, <<"4", "\n">>, <<"5", "\n">>, <<"6", "\n">>,
      <<"7", "\n">>, <<"8", "\n">>, <<" ", "3", " ", "\n">>, <<"1", "0", "\n">>,
      <<"6", "5", "5", "3", "7", "\n">>,
      <<"4", "2", "9", "4", "9", "6", "7", "2", "9", "5", "\n">>,
      <<"4", "2", "9", "4", "9", "6", "7", "2", "9", "6", "\n">>,
      <<"4", "2", "9", "4", "9", "6", "7", "2", "9", "7", "\n">> }

ReadResults ==
    {[ok |-> TRUE, line |-> l] : l \in SeqsUpTo(InputChars, MaxInputLen) \cup ExtraLines}
        \cup {[ok |-> FALSE, line |-> <<>>]}

Statuses == {100, 200, 299, 300, 404, 500}

EmptyContent == [wellformed |-> FALSE, channel |-> <<>>, items |-> <<>>]
NoResponse == [kind |-> "none", status |-> 0, content |-> EmptyContent]

\* send() fails (connection, timeout), or a response with a status arrives.
SendResults ==
    {[kind |-> "transport", status |-> 0, content |-> EmptyContent]}
        \cup {[kind |-> "http", status |-> st, content |-> EmptyContent] : st \in Statuses}

TaggedText == <<"<", "b", ">", "x", "<", "/", "b", ">", "&", "n", "b", "s", "p", ";", "y">>

FullChannel ==
    [title |-> <<"F">>, description |-> <<"<", "i", ">", "d">>, link |-> <<"f">>]
FullItems ==
    { [title |-> <<"A">>, link |-> <<"a">>, description |-> TaggedText, pubDate |-> <<"1">>],
      [title |-> <<"B">>, link |-> <<"b">>, description |-> <<"x">>, pubDate |-> <<"2">>] }

\* e without its child f
Without(e, f) == [k \in (DOMAIN e) \ {f} |-> e[k]]

ChannelElems == {FullChannel} \cup {Without(FullChannel, f) : f \in ChannelFields}
ItemElems ==
    FullItems \cup
    {Without([title |-> <<"A">>, link |-> <<"a">>, description |-> TaggedText,
              pubDate |-> <<"1">>], f) : f \in ItemFields}

\* Well-formed documents with every combination of children, and the same
\* documents cut off or garbled somewhere (under a complete channel).
Contents ==
    {[wellformed |-> TRUE, channel |-> c, items |-> its] :
        c \in ChannelElems, its \in SeqsUpTo(ItemElems, MaxItems)}
    \cup {[wellformed |-> FALSE, channel |-> FullChannel, items |-> its] :
        its \in SeqsUpTo(ItemElems, MaxItems)}

\* response.text() fails while the body is read, or returns the body.
TextResults == {[ok |-> FALSE, content |-> EmptyContent]}
                   \cup {[ok |-> TRUE, content |-> c] : c \in Contents}

(***************************************************************************)
(* main and RssReader::run, main.rs:144-175.                               *)
(***************************************************************************)
ErrLine(kind, msg, code) ==
    [label |-> "Error: ", kind |-> kind, msg |-> msg, code |-> code]

\* Faulty variant: process::exit(1) is left out, main returns Ok(()) after eprintln.
main_exit_code_always_ok(run_ok) == 0

\* main, main.rs:169-174: Ok(()) of run ends in status 0, Err in exit(1).
main_exit_code(run_ok) == IF run_ok THEN 0 ELSE 1

\* Faulty variant: every status below 400 is taken for a success.
is_success_below_400(status) == status < 400

\* StatusCode::is_success as used at main.rs:92.
is_success(status) == status >= 200 /\ status <= 299

\* Faulty variant: a miss falls back to the first feed (unwrap_or for ok_or).
lookup_or_first(urls, c) ==
    IF c.hi = 0 /\ c.lo \in DOMAIN urls THEN <<urls[c.lo]>> ELSE <<urls[1]>>

\* category_urls.get(&category), main.rs:153-155: <<url>> on a hit, <<>> on a miss.
lookup(urls, c) ==
    IF c.hi = 0 /\ c.lo \in DOMAIN urls THEN <<urls[c.lo]>> ELSE <<>>

\* run returned Err(e): main prints it to standard error and exits.
Fail(e) ==
    /\ stderr' = Append(stderr, e)
    /\ exit_code' = <<main_exit_code(FALSE)>>
    /\ pc' = "exited"

\* run: print_menu, then get_category_input blocks on standard input.
PrintMenu ==
    /\ pc = "menu"
    /\ stdout' = stdout \o print_menu
    /\ pc' = "await"
    /\ UNCHANGED <<category_urls, input, category, url, response, rss, gets,
                   body_read, parse_tried, stderr, exit_code>>
    /\ UNCHANGED san_vars

\* run from the line read to the request sent, main.rs:147-158.
Select(read) ==
    /\ pc = "await"
    /\ input' = read
    /\ LET r == get_category_input(read)
       IN  IF ~r.ok
           THEN /\ Fail(ErrLine("InvalidSelection", r.err, 0))
                /\ UNCHANGED <<category, url, gets>>
           ELSE /\ category' = <<r.val>>
                /\ IF r.val = U32(0)
                   THEN /\ exit_code' = <<0>>
                        /\ pc' = "exited"
                        /\ UNCHANGED <<url, gets, stderr>>
                   ELSE IF lookup(category_urls, r.val) = <<>>
                   THEN /\ Fail(ErrLine("CategoryNotFound", "Invalid category number", 0))
                        /\ UNCHANGED <<url, gets>>
                   ELSE /\ url' = lookup(category_urls, r.val)[1]
                        /\ gets' = gets + 1
                        /\ pc' = "sending"
                        /\ UNCHANGED <<stderr, exit_code>>
    /\ UNCHANGED <<category_urls, response, rss, body_read, parse_tried, stdout>>
    /\ UNCHANGED san_vars

\* fetch_rss_feed from send().await to the status check, main.rs:85-94.
Respond(sent) ==
    /\ pc = "sending"
    /\ response' = sent
    /\ IF sent.kind = "transport"
       THEN Fail(ErrLine("Transport", "error sending request", 0))
       ELSE IF ~is_success(sent.status)
       THEN Fail(ErrLine("UnexpectedStatus", "Unexpected status code: ", sent.status))
       ELSE /\ pc' = "reading"
            /\ UNCHANGED <<stderr, exit_code>>
    /\ UNCHANGED <<category_urls, input, category, url, rss, gets, body_read,
                   parse_tried, stdout>>
    /\ UNCHANGED san_vars

\* fetch_rss_feed from text().await on, then display_feed and the return to
\* main, main.rs:96-99, 158-161, 174.
ReadBody(text) ==
    /\ pc = "reading"
    /\ IF ~text.ok
       THEN /\ Fail(ErrLine("Transport", "error decoding response body", 0))
            /\ UNCHANGED <<response, rss, body_read, parse_tried, stdout>>
       ELSE /\ response' = [response EXCEPT !.content = text.content]
            /\ body_read' = TRUE
            /\ parse_tried' = TRUE
            /\ \E parsed \in from_str(text.content) :
                 IF ~parsed.ok
                 THEN /\ Fail(ErrLine("ParseError", parsed.err, 0))
                      /\ UNCHANGED <<rss, stdout>>
                 ELSE /\ rss' = <<parsed.rss>>
                      /\ stdout' = stdout \o display_feed(parsed.rss)
                      /\ exit_code' = <<main_exit_code(TRUE)>>
                      /\ pc' = "exited"
                      /\ UNCHANGED stderr
    /\ UNCHANGED <<category_urls, input, category, url, gets>>
    /\ UNCHANGED san_vars

SanIdle ==
    /\ san_pc = "idle"
    /\ san_text = <<>>
    /\ san_out = <<>>
    /\ san_twice = <<>>

\* The state when run is entered: RssReader::new has built the registry.
Init ==
    /\ pc = "menu"
    /\ category_urls = new_category_urls
    /\ input = [ok |-> TRUE, line |-> <<>>]
    /\ category = <<>>
    /\ url = ""
    /\ response = NoResponse
    /\ rss = <<>>
    /\ gets = 0
    /\ body_read = FALSE
    /\ parse_tried = FALSE
    /\ stdout = <<>>
    /\ stderr = <<>>
    /\ exit_code = <<>>
    /\ SanIdle

Next ==
    \/ PrintMenu
    \/ \E read \in ReadResults : Select(read)
    \/ \E sent \in SendResults : Respond(sent)
    \/ \E text \in TextResults : ReadBody(text)

Spec == Init /\ [][Next]_vars

(***************************************************************************)
(* remove_tags as a pure function: applied to an input, then to its own    *)
(* output.                                                                 *)
(***************************************************************************)
Pieces ==
    { <<"<">>, <<">">>, <<"a">>, <<"&">>, <<"&", "n", "b">>, <<"s", "p", ";">>,
      <<"<", "b", ">">>, <<" ">> }

\* The input of tests::test_remove_tags, main.rs:185.
TestHtml ==
    <<"<", "p", ">", "H", "e", "l", "l", "o", " ", "<", "b", ">", "w", "o", "r",
      "l", "d", "<", "/", "b", ">", "!", "<", "/", "p", ">", "&", "n", "b", "s",
      "p", ";", "T", "e", "s", "t">>

SanInputs ==
    {Concat(ps) : ps \in SeqsUpTo(Pieces, MaxPieces)} \cup {TestHtml}

SessionIdle ==
    /\ pc = "idle"
    /\ category_urls = new_category_urls
    /\ input = [ok |-> TRUE, line |-> <<>>]
    /\ category = <<>>
    /\ url = ""
    /\ response = NoResponse
    /\ rss = <<>>
    /\ gets = 0
    /\ body_read = FALSE
    /\ parse_tried = FALSE
    /\ stdout = <<>>
    /\ stderr = <<>>
    /\ exit_code = <<>>

InitSanitize ==
    /\ SessionIdle
    /\ san_pc = "input"
    /\ san_text \in SanInputs
    /\ san_out = <<>>
    /\ san_twice = <<>>

Sanitize ==
    /\ san_pc = "input"
    /\ san_out' = remove_tags(san_text)
    /\ san_pc' = "once"
    /\ UNCHANGED <<san_text, san_twice>>
    /\ UNCHANGED session_vars

SanitizeAgain ==
    /\ san_pc = "once"
    /\ san_twice' = remove_tags(san_out)
    /\ san_pc' = "twice"
    /\ UNCHANGED <<san_text, san_out>>
    /\ UNCHANGED session_vars

NextSanitize == Sanitize \/ SanitizeAgain

SpecSanitize == InitSanitize /\ [][NextSanitize]_vars

(***************************************************************************)
(* What the sanitizer is to compute, stated position by position.          *)
(***************************************************************************)
\* The elements of s at the indices in K, in order.
Pick(s, K) ==
    [n \in 1..Cardinality(K) |->
        s[CHOOSE k \in K : Cardinality({j \in K : j <= k}) = n]]

\* Position k lies in a span "<", characters other than ">", ">".
InTag(s, k) ==
    \E i \in 1..k :
       /\ s[i] = "<"
       /\ \A m \in i..(k - 1) : s[m] # ">"
       /\ \E j \in k..Len(s) : j > i /\ s[j] = ">"

TagsDeleted(s) == Pick(s, {k \in 1..Len(s) : ~InTag(s, k)})

EntityAt(t, p) == p >= 1 /\ p + 5 <= Len(t) /\ SubSeq(t, p, p + 5) = Nbsp

\* Position k is a character of an entity other than its "&".
InsideEntity(t, k) == \E p \in (k - 5)..(k - 1) : EntityAt(t, p)

EntitiesReplaced(t) ==
    LET K == {k \in 1..Len(t) : ~InsideEntity(t, k)}
        kept == Pick([k \in 1..Len(t) |-> k], K)
    IN  [n \in 1..Cardinality(K) |->
            IF EntityAt(t, kept[n]) THEN " " ELSE t[kept[n]]]

Sanitized(s) == EntitiesReplaced(TagsDeleted(s))

Brackets == {"<", ">"}

\* Every "<" and ">" of s is an end of a span "<", no bracket, ">".
WellTagged(s) ==
    /\ \A i \in 1..Len(s) : s[i] = "<" =>
          \E j \in (i + 1)..Len(s) :
             s[j] = ">" /\ \A m \in (i + 1)..(j - 1) : s[m] \notin Brackets
    /\ \A j \in 1..Len(s) : s[j] = ">" =>
          \E i \in 1..(j - 1) :
             s[i] = "<" /\ \A m \in (i + 1)..(j - 1) : s[m] \notin Brackets

\* No "<" of s is followed later by a ">".
NoCompleteTag(s) ==
    ~ \E i \in 1..Len(s) : \E j \in (i + 1)..Len(s) : s[i] = "<" /\ s[j] = ">"

HasEntity(s) == \E p \in 1..Len(s) : EntityAt(s, p)

TestCleaned ==
    <<"H", "e", "l", "l", "o", " ", "w", "o", "r", "l", "d", "!", " ", "T", "e",
      "s", "t">>

\* C6: remove_tags returns its input with every leftmost non-overlapping
\* span "<", non-">" characters, ">" deleted and then every "&nbsp;" of that
\* result replaced by one space, nothing else changed; the input of
\* test_remove_tags becomes "Hello world! Test".
C6_SanitizeIsTagsThenEntities ==
    san_pc \in {"once", "twice"} =>
        /\ san_out = Sanitized(san_text)
        /\ san_text = TestHtml => san_out = TestCleaned

C6_Witness ==
    san_pc = "once" /\ san_text = TestHtml /\ san_out = TestCleaned

\* C7: remove_tags is idempotent: applied to its own output it returns that
\* output, also when removing a tag joined the pieces of an entity.
C7_Idempotent ==
    san_pc = "twice" => san_twice = san_out

C7_Witness ==
    /\ san_pc = "twice"
    /\ san_text = <<"&", "n", "b", "<", "b", ">", "s", "p", ";">>
    /\ san_out = <<" ">>
    /\ san_twice = <<" ">>

\* C8: when every "<" and ">" of the input belongs to a well-formed,
\* non-overlapping tag span, the output holds no "<" and no ">".
C8_NoBracketsLeft ==
    (san_pc \in {"once", "twice"} /\ WellTagged(san_text)) =>
        \A k \in 1..Len(san_out) : san_out[k] \notin Brackets

C8_Witness ==
    /\ san_pc = "once"
    /\ san_text = <<"<", "b", ">", "a", "<", "b", ">">>
    /\ san_out = <<"a">>

\* C10 as claimed: a string without a complete tag is returned unchanged.
C10_Original ==
    (san_pc \in {"once", "twice"} /\ NoCompleteTag(san_text)) => san_out = san_text

\* C10 as amended: for a string without a complete tag remove_tags changes
\* nothing but each "&nbsp;", which becomes one space; such a string without
\* "&nbsp;" is returned unchanged.
C10_UnchangedButEntities ==
    (san_pc \in {"once", "twice"} /\ NoCompleteTag(san_text)) =>
        /\ san_out = EntitiesReplaced(san_text)
        /\ ~HasEntity(san_text) => san_out = san_text

C10_Witness ==
    /\ san_pc = "once"
    /\ san_text = <<">", "a", "<">>
    /\ san_out = <<">", "a", "<">>

(***************************************************************************)
(* The console session.                                                    *)
(***************************************************************************)
Exited == pc = "exited"

\* The line without the whitespace at its ends.
Core(l) ==
    LET solid == {k \in 1..Len(l) : l[k] \notin Whitespace}
    IN  IF solid = {} THEN <<>>
        ELSE SubSeq(l, CHOOSE a \in solid : \A k \in solid : a <= k,
                       CHOOSE b \in solid : \A k \in solid : b >= k)

\* The line is an unsigned integer that is a key of the registry: an
\* optional "+", any number of zeros, one of the digits 1 to 8.
IsKeyLine(l) ==
    LET t == Core(l)
        d == IF t # <<>> /\ t[1] = "+" THEN Tail(t) ELSE t
    IN  /\ d # <<>>
        /\ d[Len(d)] \in {"1", "2", "3", "4", "5", "6", "7", "8"}
        /\ \A k \in 1..(Len(d) - 1) : d[k] = "0"

\* The line is the integer 0: an optional "+" and one or more zeros.
IsZeroLine(l) ==
    LET t == Core(l)
        d == IF t # <<>> /\ t[1] = "+" THEN Tail(t) ELSE t
    IN  d # <<>> /\ \A k \in 1..Len(d) : d[k] = "0"

Status2xx == response.kind = "http" /\ response.status \in 200..299

\* The body lacks well-formedness or a required child.
BadBody(c) ==
    \/ ~c.wellformed
    \/ ~(ChannelFields \subseteq DOMAIN c.channel)
    \/ \E i \in 1..Len(c.items) : ~(ItemFields \subseteq DOMAIN c.items[i])

FeedLines == SubSeq(stdout, Len(print_menu) + 1, Len(stdout))

FeedDisplayed == rss # <<>> /\ FeedLines # <<>>

ErrorKinds ==
    {"InvalidSelection", "CategoryNotFound", "Transport", "UnexpectedStatus", "ParseError"}

\* C1: a run ends with status 0 exactly when the user selected 0 or the feed
\* was fetched, parsed and displayed; in every other case (unparsable
\* selection, selection that is no registry key, transport failure, non-2xx
\* status, XML parse failure) it ends with status 1 and exactly one error
\* message on standard error.
C1_ExitStatus ==
    /\ ~Exited => exit_code = <<>> /\ stderr = <<>>
    /\ Exited =>
        /\ exit_code \in {<<0>>, <<1>>}
        /\ exit_code = <<0>> <=>
              \/ input.ok /\ IsZeroLine(input.line)
              \/ FeedDisplayed
        /\ exit_code = <<0>> => stderr = <<>>
        /\ exit_code = <<1>> => Len(stderr) = 1 /\ stderr[1].kind \in ErrorKinds
        /\ ~input.ok => exit_code = <<1>>
        /\ (input.ok /\ ~IsZeroLine(input.line) /\ ~IsKeyLine(input.line))
              => exit_code = <<1>>
        /\ response.kind = "transport" => exit_code = <<1>>
        /\ (response.kind = "http" /\ ~Status2xx) => exit_code = <<1>>
        /\ (Status2xx /\ ~body_read) => exit_code = <<1>>
        /\ (parse_tried /\ rss = <<>>) => exit_code = <<1>>

C1_Witness ==
    /\ Exited
    /\ exit_code = <<1>>
    /\ Len(stderr) = 1
    /\ stderr[1].kind = "ParseError"

\* C2: at most one HTTP GET is sent in a run, and only after the one input
\* line parsed as an unsigned integer that is a registry key; 0, non-numeric
\* input and numbers that are no key end the run without a network call; the
\* menu is printed once and never again.
C2_AtMostOneGet ==
    /\ gets \in {0, 1}
    /\ gets = 1 => input.ok /\ IsKeyLine(input.line)
    /\ (Exited /\ ~(input.ok /\ IsKeyLine(input.line))) =>
          gets = 0 /\ response = NoResponse
    /\ response # NoResponse => gets = 1
    /\ Cardinality({k \in 1..Len(stdout) : stdout[k] = print_menu[1]}) <= 1

C2_Witness ==
    /\ Exited
    /\ gets = 1
    /\ response.kind = "http"
    /\ response.status = 500

\* C3: a response with a non-2xx status makes the fetch fail with the
\* UnexpectedStatus error that carries the numeric status code, and the body
\* is neither read nor parsed.
C3_UnexpectedStatus ==
    (response.kind = "http" /\ response.status \notin 200..299) =>
        /\ Exited
        /\ Len(stderr) = 1
        /\ stderr[1].kind = "UnexpectedStatus"
        /\ stderr[1].code = response.status
        /\ ~body_read
        /\ ~parse_tried
        /\ rss = <<>>

C3_Witness ==
    /\ Exited
    /\ response.kind = "http"
    /\ response.status = 404
    /\ stderr[1].code = 404

\* C4: when the body of a 2xx response is malformed XML or lacks a required
\* field, the run ends with a ParseError and nothing of the feed is printed:
\* standard output holds the menu and no header or item line, not even for
\* the items before the bad part.
C4_ParseErrorPrintsNothing ==
    (body_read /\ BadBody(response.content)) =>
        /\ Exited
        /\ Len(stderr) = 1
        /\ stderr[1].kind = "ParseError"
        /\ exit_code = <<1>>
        /\ rss = <<>>
        /\ stdout = print_menu

C4_Witness ==
    /\ Exited
    /\ body_read
    /\ response.content.wellformed
    /\ Len(response.content.items) = 2
    /\ ItemFields \subseteq DOMAIN response.content.items[1]
    /\ ~(ItemFields \subseteq DOMAIN response.content.items[2])
    /\ stdout = print_menu

\* C5: for a parsed feed with N items display prints the feed title, link
\* and description once and then exactly N item blocks in document order,
\* none filtered, reordered or deduplicated; a block is title, link,
\* sanitized description, publish date and one separator line, so N
\* separator lines are printed.
C5_DisplayAllItems ==
    rss # <<>> =>
        LET doc == response.content
            N == Len(doc.items)
            out == FeedLines
            at(i) == 5 + 6 * (i - 1)
        IN  /\ Len(rss[1].channel.items) = N
            /\ Len(out) = 5 + 6 * N
            /\ out[2] = Line("Title: ", doc.channel["title"])
            /\ out[3] = Line("Link: ", doc.channel["link"])
            /\ out[4] = Line("Description: ", doc.channel["description"])
            /\ \A i \in 1..N :
                 /\ out[at(i) + 1] = Line("Title: ", doc.items[i]["title"])
                 /\ out[at(i) + 2] = Line("Link: ", doc.items[i]["link"])
                 /\ out[at(i) + 3] =
                       Line("Description: ", Sanitized(doc.items[i]["description"]))
                 /\ out[at(i) + 4] = Line("Published: ", doc.items[i]["pubDate"])
                 /\ out[at(i) + 6] = Separator
            /\ Cardinality({k \in 1..Len(out) : out[k] = Separator}) = N

C5_Witness ==
    /\ rss # <<>>
    /\ Len(rss[1].channel.items) = 2
    /\ rss[1].channel.items[1] = rss[1].channel.items[2]
    /\ rss[1].channel.items[1].description = TaggedText
    /\ Len(FeedLines) = 17

LookupIds == {U32(n) : n \in 0..MaxLookupId} \cup {[hi |-> 1, lo |-> n] : n \in 0..MaxLookupId}

RegistryShape ==
    /\ DOMAIN category_urls = 1..8
    /\ \A k \in 1..8 : category_urls[k] # ""
    /\ \A j, k \in 1..8 : j # k => category_urls[j] # category_urls[k]
    /\ \A c \in LookupIds :
         lookup(category_urls, c) =
            IF c.hi = 0 /\ c.lo \in 1..8 THEN <<category_urls[c.lo]>> ELSE <<>>
    /\ gets = 1 => url = category_urls[category[1].lo]
    /\ (Exited /\ category # <<>> /\ category[1] # U32(0)
           /\ ~(category[1].hi = 0 /\ category[1].lo \in 1..8)) =>
          stderr = <<ErrLine("CategoryNotFound", "Invalid category number", 0)>>

\* C9: the registry has exactly the keys 1..8, each mapped to one non-empty
\* URL, the 8 URLs pairwise distinct, and no step of the run changes it; an
\* id in 1..8 looks up to its URL, 0 and any id outside 1..8 to no URL
\* (CategoryNotFound).
C9_Registry ==
    /\ [] RegistryShape
    /\ [][category_urls' = category_urls]_vars

C9_Witness ==
    /\ Exited
    /\ category = <<U32(10)>>
    /\ Len(stderr) = 1
    /\ stderr[1].kind = "CategoryNotFound"

====
